---- MODULE Spec2Model ----
(***************************************************************************)
(* Model of simple-vector: ArrayPtr<Type> (array_ptr.h), the exclusive     *)
(* owner of one heap block, and SimpleVector<Type> (simple_vector.h), the  *)
(* resizable array built on it.                                            *)
(*                                                                         *)
(* The heap is modelled explicitly: a block has an address, a slot count   *)
(* fixed by the new[] that made it, and slot contents.  A raw pointer is   *)
(* an address (Null = nullptr); an iterator is an address and an offset.   *)
(* An access through a pointer to a slot that is not inside a live block   *)
(* is undefined behaviour: a read yields any value, a write is lost or     *)
(* lands in some other live block, and `fault` records it.  The model      *)
(* stops exploring once `fault` is set.                                    *)
(***************************************************************************)
EXTENDS Integers, Sequences, FiniteSets, TLC

\* ----- bounds of the model
MaxLen  == 4     \* largest block new[] is asked for, one object (Spec)
MaxPair == 3     \* largest block new[] is asked for, two objects (SpecPair)
MaxCalls == 4    \* longest program on two objects (SpecPair)
NumAddr == 3     \* number of distinct block addresses
MaxPush == 9     \* longest PushBack-only run (SpecPush)

\* ----- the template parameter and the memory model
Type    == {0, 1}            \* the element type the template is instantiated with
Default == 0                 \* Type{}
Indet   == -1                \* content of a slot new[] made and nothing wrote
Null    == 0                 \* nullptr
Addr    == 1..NumAddr
Names   == {"a", "b"}        \* the SimpleVector objects of the program
Ptrs    == {"p", "q"}        \* the free-standing ArrayPtr objects (SpecPtr)

VARIABLES
    vec,      \* vec[n]: SimpleVector n: alive, items_ (raw_ptr_ of its ArrayPtr), size_, capacity_
    ptr,      \* ptr[n]: ArrayPtr n: alive, raw_ptr_
    heap,     \* heap[k]: block at address k: live, data (sequence of slots)
    fault,    \* "none", or the undefined behaviour that happened
    last,     \* the last call: op, object, arguments, result
    log       \* the test harness: log.vals, the values PushBack was called with in
              \* call order, and log.moves, the elements PushBack carried into new
              \* blocks (kept when log.push); log.calls, the number of calls
              \* made (kept when log.count); log.copy, whether an object was
              \* copy-constructed and only mutated since; log.oom, whether
              \* operator new[] may fail in this program

vars == <<vec, ptr, heap, fault, last, log>>

Max(x, y) == IF x >= y THEN x ELSE y
Min(x, y) == IF x <= y THEN x ELSE y

\* A memory is what the operations below thread through their steps: the blocks,
\* the undefined behaviour so far, and whether operator new[] may fail (throw
\* std::bad_alloc) in this program.
Mem == [blk |-> heap, fault |-> fault, oom |-> log.oom]

Fault(m, f) == IF m.fault = "none" THEN [m EXCEPT !.fault = f] ELSE m

\* Slot i (0-based) of the block at p is inside a live allocated block.
Valid(m, p, i) ==
    /\ p \in Addr
    /\ m.blk[p].live
    /\ i >= 0
    /\ i < Len(m.blk[p].data)

\* *(raw_ptr_ + i) read: the outcomes, each a memory and the value read.
Load(m, p, i) ==
    IF Valid(m, p, i)
    THEN IF m.blk[p].data[i + 1] # Indet
         THEN {[m |-> m, x |-> m.blk[p].data[i + 1]]}
         ELSE {[m |-> m, x |-> x] : x \in Type}
    ELSE {[m |-> Fault(m, "out_of_block"), x |-> x] : x \in Type}

LiveSlots(m) ==
    UNION {{<<q, j>> : j \in 1..Len(m.blk[q].data)} : q \in {k \in Addr : m.blk[k].live}}

\* *(raw_ptr_ + i) = x: the memories that can result.
Store(m, p, i, x) ==
    IF Valid(m, p, i)
    THEN {[m EXCEPT !.blk[p].data[i + 1] = x]}
    ELSE LET f == Fault(m, "out_of_block")
         IN  {f} \cup {[f EXCEPT !.blk[s[1]].data[s[2]] = x] : s \in LiveSlots(m)}

\* new Type[n] (ArrayPtr(size_t)): the outcomes, each a memory, the pointer and
\* whether new[] threw.  size == 0 allocates nothing.  The block takes the
\* lowest free address; its slots are not initialised.
New(m, n) ==
    IF n = 0 THEN {[m |-> m, p |-> Null, threw |-> FALSE]}
    ELSE LET free == {k \in Addr : ~m.blk[k].live}
             made == IF free = {} THEN {}
                     ELSE LET k == CHOOSE c \in free : \A d \in free : c <= d
                          IN  {[m |-> [m EXCEPT !.blk[k] =
                                         [live |-> TRUE, data |-> [i \in 1..n |-> Indet]]],
                                p |-> k, threw |-> FALSE]}
         IN  made \cup (IF m.oom THEN {[m |-> m, p |-> Null, threw |-> TRUE]} ELSE {})

\* delete[] p (~ArrayPtr).
Delete(m, p) ==
    IF p = Null THEN m
    ELSE IF m.blk[p].live
         THEN [m EXCEPT !.blk[p] = [live |-> FALSE, data |-> <<>>]]
         ELSE Fault(m, "double_delete")

\* A reallocation that carries nothing over.
MoveRangeForgotten(M, src, first, lst, dst, dfirst) == M

\* std::move / std::copy (first, last, d_first) over slots [first, last) of the
\* block at src into the block at dst from slot dfirst on, front to back.
\* M is the set of memories the call can start from.
RECURSIVE MoveRange(_, _, _, _, _, _)
MoveRange(M, src, first, lst, dst, dfirst) ==
    IF first >= lst THEN M
    ELSE MoveRange(
            UNION {UNION {Store(r.m, dst, dfirst, r.x) : r \in Load(m, src, first)} : m \in M},
            src, first + 1, lst, dst, dfirst + 1)

\* std::copy_backward / std::move_backward (first, last, d_last), back to front.
RECURSIVE CopyBackward(_, _, _, _, _)
CopyBackward(M, p, first, lst, dlast) ==
    IF first >= lst THEN M
    ELSE CopyBackward(
            UNION {UNION {Store(r.m, p, dlast - 1, r.x) : r \in Load(m, p, lst - 1)} : m \in M},
            p, first, lst - 1, dlast - 1)

\* std::fill / std::generate over slots [first, last) of the block at p.
RECURSIVE Fill(_, _, _, _, _)
Fill(M, p, first, lst, x) ==
    IF first >= lst THEN M
    ELSE Fill(UNION {Store(m, p, first, x) : m \in M}, p, first + 1, lst, x)

\* std::move(init.begin(), init.end(), begin()): the literal sequence s into the block.
RECURSIVE Put(_, _, _, _)
Put(M, p, first, s) ==
    IF s = <<>> THEN M
    ELSE Put(UNION {Store(m, p, first, Head(s)) : m \in M}, p, first + 1, Tail(s))

\* ----- SimpleVector: the operations as relations on (memory, object)

\* A SimpleVector object that is not constructed, and one as SimpleVector() leaves it.
NoVec    == [alive |-> FALSE, items |-> Null, size |-> 0, cap |-> 0]
EmptyVec == [alive |-> TRUE,  items |-> Null, size |-> 0, cap |-> 0]

\* The record of a call: the operation, its object v, the other object o it
\* takes (v itself when it takes none), its index and value arguments, and what it returned (an iterator or reference as block and
\* offset, or the out_of_range exception).
Call(op, v, o, i, x) ==
    [op |-> op, v |-> v, o |-> o, i |-> i, x |-> x,
     threw |-> FALSE, rblk |-> Null, ridx |-> 0]

Returning(c, blk, idx) == [c EXCEPT !.rblk = blk, !.ridx = idx]

\* Insert's growth computed after ++size_.
CapacityNewAfter(size, cap) == Max(size + 2, cap * 2)

\* Insert's growth by one slot.
CapacityNewByOne(size, cap) == size + 1

\* Insert's growth without the floor of size_ + 1.
CapacityNewDoubling(size, cap) == cap * 2

\* Insert's growth: std::max(size_ + 1, capacity_ * 2).
CapacityNew(size, cap) == Max(size + 1, cap * 2)

\* Resize's growth: std::max(capacity_ * 2, new_size).
ResizeCapacity(cap, n) == Max(cap * 2, n)

\* Insert(pos, value), pos = begin() + p.  Outcomes: memory, object, returned iterator.
InsertOp(m, s, p, x) ==
    IF s.size < s.cap
    THEN LET shifted == CopyBackward({m}, s.items, p, s.size, s.size + 1)
         IN  {[m |-> w, v |-> [s EXCEPT !.size = s.size + 1], rblk |-> s.items, ridx |-> p,
               threw |-> FALSE] :
                 w \in UNION {Store(h, s.items, p, x) : h \in shifted}}
    ELSE LET capacity_new == CapacityNew(s.size, s.cap)
         IN  UNION {
                IF a.threw
                THEN {[m |-> a.m, v |-> s, rblk |-> Null, ridx |-> 0, threw |-> TRUE]}
                ELSE
                LET head   == MoveRange({a.m}, s.items, 0, p, a.p, 0)
                    placed == UNION {Store(h, a.p, p, x) : h \in head}
                    tail   == MoveRange(placed, s.items, p, s.size, a.p, p + 1)
                IN  {[m |-> Delete(w, s.items),
                      v |-> [s EXCEPT !.items = a.p, !.cap = capacity_new, !.size = s.size + 1],
                      rblk |-> a.p, ridx |-> p, threw |-> FALSE] : w \in tail}
                : a \in New(m, capacity_new)}

\* Erase that takes the element out of the count and moves nothing.
EraseOpNoShift(m, s, p) ==
    IF p = s.size
    THEN {[m |-> m, v |-> s, rblk |-> s.items, ridx |-> s.size]}
    ELSE {[m |-> m, v |-> [s EXCEPT !.size = s.size - 1], rblk |-> s.items, ridx |-> p]}

\* Erase(pos), pos = begin() + p.
EraseOp(m, s, p) ==
    IF p = s.size
    THEN {[m |-> m, v |-> s, rblk |-> s.items, ridx |-> s.size]}
    ELSE {[m |-> w, v |-> [s EXCEPT !.size = s.size - 1], rblk |-> s.items, ridx |-> p] :
             w \in MoveRange({m}, s.items, p + 1, s.size, s.items, p)}

\* PopBack without the IsEmpty() test.
PopBackOpUnchecked(s) == [s EXCEPT !.size = s.size - 1]

\* PopBack().
PopBackOp(s) == IF s.size # 0 THEN [s EXCEPT !.size = s.size - 1] ELSE s

\* Clear().
ClearOp(s) == [s EXCEPT !.size = 0]

\* Reserve that reallocates to new_capacity whatever the capacity is.
ReserveOpAlways(m, s, n) ==
    UNION {
        {[m |-> Delete(w, s.items), v |-> [s EXCEPT !.items = a.p, !.cap = n],
          threw |-> a.threw] :
            w \in MoveRange({a.m}, s.items, 0, Min(s.size, n), a.p, 0)}
        : a \in New(m, n)}

\* Reserve(new_capacity).
ReserveOp(m, s, n) ==
    IF n > s.cap
    THEN UNION {
            IF a.threw
            THEN {[m |-> a.m, v |-> s, threw |-> TRUE]}
            ELSE {[m |-> Delete(w, s.items), v |-> [s EXCEPT !.items = a.p, !.cap = n],
                   threw |-> FALSE] :
                     w \in MoveRange({a.m}, s.items, 0, s.size, a.p, 0)}
            : a \in New(m, n)}
    ELSE {[m |-> m, v |-> s, threw |-> FALSE]}

\* Resize that sets size_ before it allocates the new block.
ResizeOpEager(m, s, n) ==
    IF n <= s.size
    THEN {[m |-> m, v |-> [s EXCEPT !.size = n], threw |-> FALSE]}
    ELSE IF n <= s.cap
    THEN {[m |-> w, v |-> [s EXCEPT !.size = n], threw |-> FALSE] :
             w \in Fill({m}, s.items, s.size, n, Default)}
    ELSE UNION {
            IF a.threw
            THEN {[m |-> a.m, v |-> [s EXCEPT !.size = n], threw |-> TRUE]}
            ELSE
            LET moved == MoveRange({a.m}, s.items, 0, s.size, a.p, 0)
            IN  {[m |-> Delete(w, s.items),
                  v |-> [s EXCEPT !.items = a.p, !.size = n, !.cap = ResizeCapacity(s.cap, n)],
                  threw |-> FALSE] :
                    w \in Fill(moved, a.p, s.size, n, Default)}
            : a \in New(m, n)}

\* Resize(new_size).
ResizeOp(m, s, n) ==
    IF n <= s.size
    THEN {[m |-> m, v |-> [s EXCEPT !.size = n], threw |-> FALSE]}
    ELSE IF n <= s.cap
    THEN {[m |-> w, v |-> [s EXCEPT !.size = n], threw |-> FALSE] :
             w \in Fill({m}, s.items, s.size, n, Default)}
    ELSE UNION {
            IF a.threw
            THEN {[m |-> a.m, v |-> s, threw |-> TRUE]}
            ELSE
            LET moved == MoveRange({a.m}, s.items, 0, s.size, a.p, 0)
            IN  {[m |-> Delete(w, s.items),
                  v |-> [s EXCEPT !.items = a.p, !.size = n, !.cap = ResizeCapacity(s.cap, n)],
                  threw |-> FALSE] :
                    w \in Fill(moved, a.p, s.size, n, Default)}
            : a \in New(m, n)}

\* At that lets index == size_ through.
AtOpInclusive(c, s, i) ==
    IF i <= s.size THEN Returning(c, s.items, i) ELSE [c EXCEPT !.threw = TRUE]

\* At(index): a reference to slot index, or std::out_of_range.
AtOp(c, s, i) ==
    IF i < s.size THEN Returning(c, s.items, i) ELSE [c EXCEPT !.threw = TRUE]

\* operator==: sizes, then std::equal front to back up to the first mismatch.
\* Outcomes: memory and the answer.
RECURSIVE EqualRange(_, _, _, _, _)
EqualRange(m, lp, i, n, rp) ==
    IF i >= n THEN {[m |-> m, b |-> TRUE]}
    ELSE UNION {UNION {
            IF l.x = r.x THEN EqualRange(r.m, lp, i + 1, n, rp) ELSE {[m |-> r.m, b |-> FALSE]}
            : r \in Load(l.m, rp, i)} : l \in Load(m, lp, i)}

EqOp(m, l, r) ==
    IF l.size = r.size THEN EqualRange(m, l.items, 0, l.size, r.items)
    ELSE {[m |-> m, b |-> FALSE]}

\* operator!=: !(lhs == rhs).
NeOp(m, l, r) == {[m |-> e.m, b |-> ~e.b] : e \in EqOp(m, l, r)}

\* A lexicographical comparison in which a range that ends first is never less.
RECURSIVE LessRangeNoPrefix(_, _, _, _, _, _)
LessRangeNoPrefix(m, lp, i, ln, rp, rn) ==
    IF i >= ln \/ i >= rn THEN {[m |-> m, b |-> FALSE]}
    ELSE UNION {UNION {
            IF l.x # r.x THEN {[m |-> r.m, b |-> l.x < r.x]}
            ELSE LessRangeNoPrefix(r.m, lp, i + 1, ln, rp, rn)
            : r \in Load(l.m, rp, i)} : l \in Load(m, lp, i)}

\* std::lexicographical_compare over slots [i, ln) of the block at lp and [i, rn)
\* of the block at rp: the first pair that differs decides; when a range ends,
\* the answer is whether the left one ended and the right one did not.
RECURSIVE LessRange(_, _, _, _, _, _)
LessRange(m, lp, i, ln, rp, rn) ==
    IF i >= ln \/ i >= rn THEN {[m |-> m, b |-> i >= ln /\ i < rn]}
    ELSE UNION {UNION {
            IF l.x < r.x THEN {[m |-> r.m, b |-> TRUE]}
            ELSE IF r.x < l.x THEN {[m |-> r.m, b |-> FALSE]}
            ELSE LessRange(r.m, lp, i + 1, ln, rp, rn)
            : r \in Load(l.m, rp, i)} : l \in Load(m, lp, i)}

\* operator<, and operator<=, operator> and operator>= built on it.
LessOp(m, l, r) == LessRange(m, l.items, 0, l.size, r.items, r.size)
LessEqOp(m, l, r) == {[m |-> e.m, b |-> ~e.b] : e \in LessOp(m, r, l)}
GreaterOp(m, l, r) == LessOp(m, r, l)
GreaterEqOp(m, l, r) == {[m |-> e.m, b |-> ~e.b] : e \in LessOp(m, l, r)}

\* A copy that allocates the source's capacity instead of its size.
CopyOpKeepCapacity(m, o) ==
    UNION {
        IF a.threw
        THEN {[m |-> a.m, v |-> NoVec, threw |-> TRUE]}
        ELSE {[m |-> w, v |-> [alive |-> TRUE, items |-> a.p, size |-> o.size, cap |-> o.cap],
               threw |-> FALSE] :
                 w \in MoveRange({a.m}, o.items, 0, o.size, a.p, 0)}
        : a \in New(m, o.cap)}

\* SimpleVector(const SimpleVector& other): tmp(other.size_), copy, swap(tmp).
\* Outcomes: memory and the new object, or the exception of tmp's allocation.
CopyOp(m, o) ==
    UNION {
        IF a.threw
        THEN {[m |-> a.m, v |-> NoVec, threw |-> TRUE]}
        ELSE
        LET filled == Fill({a.m}, a.p, 0, o.size, Default)
        IN  {[m |-> w, v |-> [alive |-> TRUE, items |-> a.p, size |-> o.size, cap |-> o.size],
              threw |-> FALSE] :
                w \in MoveRange(filled, o.items, 0, o.size, a.p, 0)}
        : a \in New(m, o.size)}

\* An assignment that takes over the members of rhs, block pointer included.
AssignOpShallow(m, s, o) ==
    UNION {
        IF e.b THEN {[m |-> e.m, v |-> s, threw |-> FALSE]}
        ELSE {[m |-> Delete(e.m, s.items), v |-> o, threw |-> FALSE]}
        : e \in EqOp(m, s, o)}

\* operator=(const SimpleVector&) and operator=(SimpleVector&&): the same body,
\* if (*this != rhs) { auto tmp(rhs); swap(tmp); }, tmp dying with the old block.
AssignOp(m, s, o) ==
    UNION {
        IF e.b THEN {[m |-> e.m, v |-> s, threw |-> FALSE]}
        ELSE {IF c.threw THEN [m |-> c.m, v |-> s, threw |-> TRUE]
              ELSE [m |-> Delete(c.m, s.items), v |-> c.v, threw |-> FALSE] :
                 c \in CopyOp(e.m, o)}
        : e \in EqOp(m, s, o)}

\* ----- what a state shows of an object

\* The number of slots of the block the object's ArrayPtr holds, 0 when it holds none.
BlockSlots(h, s) ==
    IF s.items \in Addr /\ h[s.items].live THEN Len(h[s.items].data) ELSE 0

\* The element at index i: the slot's value, Indet when the slot is in no live block.
Elem(h, s, i) ==
    IF s.items \in Addr /\ h[s.items].live /\ i >= 0 /\ i < Len(h[s.items].data)
    THEN h[s.items].data[i + 1]
    ELSE Indet

\* The elements [0, size_) in index order.
Elems(h, s) == [i \in 1..s.size |-> Elem(h, s, i - 1)]

\* ----- the program: construction, calls and destruction of the objects

Init ==
    /\ vec = [n \in Names |-> NoVec]
    /\ ptr = [n \in Ptrs |-> [alive |-> FALSE, raw |-> Null]]
    /\ heap = [k \in Addr |-> [live |-> FALSE, data |-> <<>>]]
    /\ fault = "none"
    /\ last = Call("start", "a", "a", 0, 0)
    /\ log = [push |-> FALSE, count |-> FALSE, oom |-> FALSE,
              vals |-> <<>>, moves |-> 0, calls |-> 0, copy |-> FALSE]

\* The calls that change an array in place.
Mutators == {"SetItem", "Insert", "PushBack", "Erase", "Resize", "Clear"}

\* The elements Insert carries into a new block: in its growth branch the two
\* std::move calls cover [begin, pos) and [pos, end), size_ elements in all.
InsertMoves(s) == IF s.size < s.cap THEN 0 ELSE s.size

\* The log after call c.
Logged(c) ==
    [log EXCEPT !.vals  = IF log.push /\ c.op = "PushBack" /\ ~c.threw THEN Append(@, c.x) ELSE @,
                !.moves = IF log.push /\ c.op = "PushBack" /\ ~c.threw
                          THEN @ + InsertMoves(vec[c.v]) ELSE @,
                !.calls = IF log.count THEN @ + 1 ELSE @,
                !.copy  = log.count /\ ((c.op = "CopyCtor" /\ ~c.threw) \/ (@ /\ c.op \in Mutators))]

\* The call record with the exception of outcome r, if it threw.
Threw(c, r) == [c EXCEPT !.threw = r.threw]

\* The object a sized constructor builds on allocation a: none when new[] threw.
Built(a, n) ==
    IF a.threw THEN NoVec ELSE [alive |-> TRUE, items |-> a.p, size |-> n, cap |-> n]

\* The bound of the model on the blocks an object may hold.
Within(r, limit) == BlockSlots(r.m.blk, r.v) <= limit

\* The state after a call on vector v with outcome r (memory r.m, object r.v).
Commit(v, r, c) ==
    /\ vec' = [vec EXCEPT ![v] = r.v]
    /\ heap' = r.m.blk
    /\ fault' = r.m.fault
    /\ last' = c
    /\ log' = Logged(c)
    /\ UNCHANGED ptr

\* No undefined behaviour has happened, and the program has calls left to make.
Running == fault = "none" /\ (log.count => log.calls < MaxCalls)
Live(v) == Running /\ vec[v].alive
Fresh(v) == Running /\ ~vec[v].alive

\* SimpleVector()
DefaultCtor(v) ==
    /\ Fresh(v)
    /\ Commit(v, [m |-> Mem, v |-> EmptyVec], Call("DefaultCtor", v, v, 0, 0))

\* SimpleVector(ReserveProxyObj): Reserve(other.GetCapacity()) on the default members.
ReserveCtor(v, limit) ==
    /\ Fresh(v)
    /\ \E n \in 0..limit : \E r \in ReserveOp(Mem, EmptyVec, n) :
          Commit(v, IF r.threw THEN [r EXCEPT !.v = NoVec] ELSE r,
                 Threw(Call("ReserveCtor", v, v, n, 0), r))

\* SimpleVector(size_t size)
SizedCtor(v, limit) ==
    /\ Fresh(v)
    /\ \E n \in 0..limit : \E a \in New(Mem, n) :
       \E w \in (IF a.threw THEN {a.m} ELSE Fill({a.m}, a.p, 0, n, Default)) :
          Commit(v, [m |-> w, v |-> Built(a, n)], Threw(Call("SizedCtor", v, v, n, 0), a))

\* SimpleVector(size_t size, const Type& value)
FillCtor(v, limit) ==
    /\ Fresh(v)
    /\ \E n \in 0..limit, x \in Type : \E a \in New(Mem, n) :
       \E w \in (IF a.threw THEN {a.m} ELSE Fill({a.m}, a.p, 0, n, x)) :
          Commit(v, [m |-> w, v |-> Built(a, n)], Threw(Call("FillCtor", v, v, n, x), a))

\* SimpleVector(std::initializer_list<Type> init)
InitListCtor(v, limit) ==
    /\ Fresh(v)
    /\ \E n \in 0..limit : \E init \in [1..n -> Type] : \E a \in New(Mem, n) :
       \E w \in (IF a.threw THEN {a.m} ELSE Put({a.m}, a.p, 0, init)) :
          Commit(v, [m |-> w, v |-> Built(a, n)], Threw(Call("InitListCtor", v, v, n, 0), a))

\* SimpleVector(const SimpleVector& other)
CopyCtor(v, o) ==
    /\ Fresh(v) /\ vec[o].alive
    /\ \E r \in CopyOp(Mem, vec[o]) : Commit(v, r, Threw(Call("CopyCtor", v, o, 0, 0), r))

\* SimpleVector(SimpleVector&& other): each member is std::exchange'd.  ArrayPtr's
\* move operations are defaulted, so they copy raw_ptr_ and leave the source's
\* in place: std::exchange's local old_value and the object it returns hold the
\* same block.  When the return is elided (NRVO) they are one object; when it is
\* not, old_value is destroyed holding the block and delete[]s it.
MoveCtor(v, o) ==
    /\ Fresh(v) /\ vec[o].alive
    /\ \E elided \in BOOLEAN :
          LET m == IF elided THEN Mem ELSE Delete(Mem, vec[o].items)
          IN  /\ vec' = [vec EXCEPT ![v] = vec[o], ![o] = EmptyVec]
              /\ heap' = m.blk
              /\ fault' = m.fault
              /\ last' = Call("MoveCtor", v, o, 0, 0)
              /\ log' = Logged(last')
              /\ UNCHANGED ptr

\* operator=(const SimpleVector& rhs); o = v is self-assignment.
CopyAssign(v, o) ==
    /\ Live(v) /\ vec[o].alive
    /\ \E r \in AssignOp(Mem, vec[v], vec[o]) : Commit(v, r, Threw(Call("CopyAssign", v, o, 0, 0), r))

\* operator=(SimpleVector&& rhs)
MoveAssign(v, o) ==
    /\ Live(v) /\ vec[o].alive
    /\ \E r \in AssignOp(Mem, vec[v], vec[o]) : Commit(v, r, Threw(Call("MoveAssign", v, o, 0, 0), r))

\* PushBack(value): Insert(end(), value); limit bounds the block it may allocate.
PushBackUpTo(v, limit) ==
    /\ Live(v)
    /\ \E x \in Type : \E r \in InsertOp(Mem, vec[v], vec[v].size, x) :
          /\ Within(r, limit)
          /\ Commit(v, r, Threw(Call("PushBack", v, v, vec[v].size, x), r))

PushBack(v, limit) == PushBackUpTo(v, limit)

\* Insert(pos, value) for pos in [begin(), end()], by copy or by move
Insert(v, limit) ==
    /\ Live(v)
    /\ \E p \in 0..vec[v].size, x \in Type : \E r \in InsertOp(Mem, vec[v], p, x) :
          /\ Within(r, limit)
          /\ Commit(v, r, Threw(Returning(Call("Insert", v, v, p, x), r.rblk, r.ridx), r))

\* PopBack()
PopBack(v) ==
    /\ Live(v)
    /\ Commit(v, [m |-> Mem, v |-> PopBackOp(vec[v])], Call("PopBack", v, v, 0, 0))

\* Erase(pos) for pos in [begin(), end()]
Erase(v) ==
    /\ Live(v)
    /\ \E p \in 0..vec[v].size : \E r \in EraseOp(Mem, vec[v], p) :
          Commit(v, r, Returning(Call("Erase", v, v, p, 0), r.rblk, r.ridx))

\* swap(other)
Swap(v, o) ==
    /\ Live(v) /\ vec[o].alive /\ v # o
    /\ vec' = [vec EXCEPT ![v] = vec[o], ![o] = vec[v]]
    /\ last' = Call("Swap", v, o, 0, 0)
    /\ log' = Logged(last')
    /\ UNCHANGED <<ptr, heap, fault>>

\* Reserve(new_capacity)
Reserve(v, limit) ==
    /\ Live(v)
    /\ \E n \in 0..limit : \E r \in ReserveOp(Mem, vec[v], n) :
          Commit(v, r, Threw(Call("Reserve", v, v, n, 0), r))

\* (*this)[index] = x for index < size_
SetItem(v) ==
    /\ Live(v)
    /\ \E i \in 0..vec[v].size - 1, x \in Type : \E w \in Store(Mem, vec[v].items, i, x) :
          Commit(v, [m |-> w, v |-> vec[v]], Call("SetItem", v, v, i, x))

\* At(index)
At(v, limit) ==
    /\ Live(v)
    /\ \E i \in 0..limit + 1 :
          Commit(v, [m |-> Mem, v |-> vec[v]], AtOp(Call("At", v, v, i, 0), vec[v], i))

\* Clear()
Clear(v) ==
    /\ Live(v)
    /\ Commit(v, [m |-> Mem, v |-> ClearOp(vec[v])], Call("Clear", v, v, 0, 0))

\* Resize(new_size)
Resize(v, limit) ==
    /\ Live(v)
    /\ \E n \in 0..limit + 1 : \E r \in ResizeOp(Mem, vec[v], n) :
          /\ Within(r, limit)
          /\ Commit(v, r, Threw(Call("Resize", v, v, n, 0), r))

\* The six relational operators evaluated on (v, o), one after the other; the
\* call record carries their answers.
Compare(v, o) ==
    /\ Live(v) /\ vec[o].alive
    /\ \E eq \in EqOp(Mem, vec[v], vec[o]) :
       \E ne \in NeOp(eq.m, vec[v], vec[o]) :
       \E lt \in LessOp(ne.m, vec[v], vec[o]) :
       \E le \in LessEqOp(lt.m, vec[v], vec[o]) :
       \E gt \in GreaterOp(le.m, vec[v], vec[o]) :
       \E ge \in GreaterEqOp(gt.m, vec[v], vec[o]) :
          Commit(v, [m |-> ge.m, v |-> vec[v]],
                 [op |-> "Compare", v |-> v, o |-> o, i |-> 0, x |-> 0,
                  threw |-> FALSE, rblk |-> Null, ridx |-> 0,
                  eq |-> eq.b, ne |-> ne.b, lt |-> lt.b, le |-> le.b, gt |-> gt.b, ge |-> ge.b])

\* Resize(n); Resize(m); Resize(n) for m <= n, three calls in a row.
ResizeThrice(v, limit) ==
    /\ Live(v)
    /\ \E n \in 0..limit + 1 : \E m \in 0..n :
       \E r1 \in ResizeOp(Mem, vec[v], n) :
       \E r2 \in ResizeOp(r1.m, r1.v, m) :
       \E r3 \in ResizeOp(r2.m, r2.v, n) :
          /\ Within(r1, limit)
          /\ Within(r3, limit)
          /\ Commit(v, r3, Call("ResizeThrice", v, v, n, m))

\* ~SimpleVector(): ~ArrayPtr() delete[]s items_.
Destroy(v) ==
    /\ Live(v)
    /\ Commit(v, [m |-> Delete(Mem, vec[v].items), v |-> NoVec], Call("Destroy", v, v, 0, 0))

\* A program with one SimpleVector object.
Next ==
    \/ DefaultCtor("a") \/ ReserveCtor("a", MaxLen) \/ SizedCtor("a", MaxLen)
    \/ FillCtor("a", MaxLen) \/ InitListCtor("a", MaxLen)
    \/ CopyAssign("a", "a") \/ MoveAssign("a", "a")
    \/ PushBack("a", MaxLen) \/ Insert("a", MaxLen) \/ PopBack("a") \/ Erase("a")
    \/ Reserve("a", MaxLen) \/ SetItem("a") \/ At("a", MaxLen) \/ Clear("a")
    \/ Resize("a", MaxLen) \/ Destroy("a")

Spec == Init /\ [][Next]_vars

\* Programs of at most MaxCalls calls on two SimpleVector objects.
InitPair ==
    /\ vec = [n \in Names |-> NoVec]
    /\ ptr = [n \in Ptrs |-> [alive |-> FALSE, raw |-> Null]]
    /\ heap = [k \in Addr |-> [live |-> FALSE, data |-> <<>>]]
    /\ fault = "none"
    /\ last = Call("start", "a", "a", 0, 0)
    /\ log = [push |-> FALSE, count |-> TRUE, oom |-> FALSE,
              vals |-> <<>>, moves |-> 0, calls |-> 0, copy |-> FALSE]

NextCopy ==
    \E v \in Names : \E o \in Names \ {v} :
        \/ DefaultCtor(v) \/ InitListCtor(v, MaxPair)
        \/ CopyCtor(v, o)
        \/ CopyAssign(v, o) \/ MoveAssign(v, o) \/ Swap(v, o)
        \/ PushBack(v, MaxPair) \/ Insert(v, MaxPair) \/ PopBack(v) \/ Erase(v)
        \/ SetItem(v) \/ Clear(v) \/ Resize(v, MaxPair) \/ Destroy(v)

NextPair == NextCopy \/ \E v \in Names : \E o \in Names \ {v} : MoveCtor(v, o)

\* The programs that construct by move as well.
SpecPair == InitPair /\ [][NextPair]_vars

\* The programs that construct on their own or by copy.
SpecCopy == InitPair /\ [][NextCopy]_vars

\* The programs that build array a and then array b from initializer lists,
\* resize them and assign one to the other or to itself.
InitListCtorInOrder(v, limit) ==
    /\ v = "b" => vec["a"].alive
    /\ InitListCtor(v, limit)

NextAssign ==
    \E v \in Names : \E o \in Names :
        \/ InitListCtorInOrder(v, MaxPair)
        \/ CopyAssign(v, o) \/ MoveAssign(v, o)
        \/ Resize(v, MaxPair)

SpecAssign == InitPair /\ [][NextAssign]_vars

\* A program with one SimpleVector object in which operator new[] may throw
\* std::bad_alloc at any allocation.
InitAlloc ==
    /\ vec = [n \in Names |-> NoVec]
    /\ ptr = [n \in Ptrs |-> [alive |-> FALSE, raw |-> Null]]
    /\ heap = [k \in Addr |-> [live |-> FALSE, data |-> <<>>]]
    /\ fault = "none"
    /\ last = Call("start", "a", "a", 0, 0)
    /\ log = [push |-> FALSE, count |-> FALSE, oom |-> TRUE,
              vals |-> <<>>, moves |-> 0, calls |-> 0, copy |-> FALSE]

NextAlloc ==
    \/ DefaultCtor("a") \/ ReserveCtor("a", MaxLen) \/ SizedCtor("a", MaxLen)
    \/ InitListCtor("a", MaxLen)
    \/ PushBack("a", MaxLen) \/ Insert("a", MaxLen) \/ PopBack("a")
    \/ Reserve("a", MaxLen) \/ Resize("a", MaxLen) \/ Destroy("a")

SpecAlloc == InitAlloc /\ [][NextAlloc]_vars

\* The programs that build two arrays, change their sizes and capacities and
\* compare them.
NextCompare ==
    \E v \in Names : \E o \in Names :
        \/ InitListCtorInOrder(v, MaxPair)
        \/ Resize(v, MaxPair)
        \/ Compare(v, o)

SpecCompare == InitPair /\ [][NextCompare]_vars

\* A program that builds one array and resizes it, in single calls and in
\* runs of three.
NextResize ==
    \/ SizedCtor("a", MaxLen) \/ InitListCtor("a", MaxLen)
    \/ Resize("a", MaxLen) \/ ResizeThrice("a", MaxLen)
    \/ Destroy("a")

SpecResize == Init /\ [][NextResize]_vars

\* ----- ArrayPtr objects on their own

PtrCommit(n, p, m, c) ==
    /\ ptr' = [ptr EXCEPT ![n] = p]
    /\ heap' = m.blk
    /\ fault' = m.fault
    /\ last' = c
    /\ log' = Logged(c)
    /\ UNCHANGED vec

Held(raw) == [alive |-> TRUE, raw |-> raw]

\* ArrayPtr()
PtrDefaultCtor(n) ==
    /\ Running /\ ~ptr[n].alive
    /\ PtrCommit(n, Held(Null), Mem, Call("PtrDefaultCtor", n, n, 0, 0))

\* ArrayPtr(size_t size)
PtrSizedCtor(n) ==
    /\ Running /\ ~ptr[n].alive
    /\ \E k \in 0..MaxPair : \E a \in New(Mem, k) :
          PtrCommit(n, IF a.threw THEN [alive |-> FALSE, raw |-> Null] ELSE Held(a.p), a.m,
                    Threw(Call("PtrSizedCtor", n, n, k, 0), a))

\* ArrayPtr(Type* raw_ptr), given the pointer Release() last returned
PtrRawCtor(n) ==
    /\ Running /\ ~ptr[n].alive /\ last.op = "PtrRelease"
    /\ PtrCommit(n, Held(last.rblk), Mem, Call("PtrRawCtor", n, n, 0, 0))

\* ArrayPtr(ArrayPtr&&) = default: raw_ptr_ is copied, the source keeps its own.
PtrMoveCtor(n, o) ==
    /\ Running /\ ~ptr[n].alive /\ ptr[o].alive
    /\ PtrCommit(n, Held(ptr[o].raw), Mem, Call("PtrMoveCtor", n, o, 0, 0))

\* operator=(ArrayPtr&&) = default: raw_ptr_ is overwritten by the source's.
PtrMoveAssign(n, o) ==
    /\ Running /\ ptr[n].alive /\ ptr[o].alive
    /\ PtrCommit(n, Held(ptr[o].raw), Mem, Call("PtrMoveAssign", n, o, 0, 0))

\* Release()
PtrRelease(n) ==
    /\ Running /\ ptr[n].alive
    /\ PtrCommit(n, Held(Null), Mem, Returning(Call("PtrRelease", n, n, 0, 0), ptr[n].raw, 0))

\* swap(other)
PtrSwap(n, o) ==
    /\ Running /\ ptr[n].alive /\ ptr[o].alive
    /\ ptr' = [ptr EXCEPT ![n] = ptr[o], ![o] = ptr[n]]
    /\ last' = Call("PtrSwap", n, o, 0, 0)
    /\ log' = Logged(last')
    /\ UNCHANGED <<vec, heap, fault>>

\* ~ArrayPtr()
PtrDestroy(n) ==
    /\ Running /\ ptr[n].alive
    /\ PtrCommit(n, [alive |-> FALSE, raw |-> Null], Delete(Mem, ptr[n].raw),
                 Call("PtrDestroy", n, n, 0, 0))

NextPtr ==
    \E n \in Ptrs : \E o \in Ptrs \ {n} :
        \/ PtrDefaultCtor(n) \/ PtrSizedCtor(n) \/ PtrRawCtor(n)
        \/ PtrMoveCtor(n, o) \/ PtrMoveAssign(n, o)
        \/ PtrRelease(n) \/ PtrSwap(n, o) \/ PtrDestroy(n)

SpecPtr == Init /\ [][NextPtr]_vars

\* A program that default-constructs one SimpleVector and only appends to it.
InitPush ==
    /\ vec = [n \in Names |-> IF n = "a" THEN EmptyVec ELSE NoVec]
    /\ ptr = [n \in Ptrs |-> [alive |-> FALSE, raw |-> Null]]
    /\ heap = [k \in Addr |-> [live |-> FALSE, data |-> <<>>]]
    /\ fault = "none"
    /\ last = Call("DefaultCtor", "a", "a", 0, 0)
    /\ log = [push |-> TRUE, count |-> FALSE, oom |-> FALSE,
              vals |-> <<>>, moves |-> 0, calls |-> 0, copy |-> FALSE]

NextPush == Len(log.vals) < MaxPush /\ PushBackUpTo("a", 2 * MaxPush)

SpecPush == InitPush /\ [][NextPush]_vars

\* ----- the claims

\* C1: in every reachable state the capacity of each array equals the number
\* of slots of the block its ArrayPtr holds (0 when it holds none), and no
\* operation has read or written a slot outside its block.
C1_CapacityIsBlockSize ==
    /\ \A v \in Names : vec[v].alive => vec[v].cap = BlockSlots(heap, vec[v])
    /\ fault # "out_of_block"

\* C2: in every reachable state 0 <= size <= capacity holds for every array.
C2_SizeWithinCapacity ==
    \A v \in Names : vec[v].alive => 0 <= vec[v].size /\ vec[v].size <= vec[v].cap

\* C2 witness: an insertion has just filled the array to its capacity.
C2_Witness ==
    /\ last.op = "Insert"
    /\ vec["a"].size = vec["a"].cap
    /\ vec["a"].size = 2

\* The sequence s with x put before its element at 0-based index p.
InsertAt(s, p, x) == SubSeq(s, 1, p) \o <<x>> \o SubSeq(s, p + 1, Len(s))

\* The sequence s without its element at 0-based index p.
RemoveAt(s, p) == SubSeq(s, 1, p) \o SubSeq(s, p + 2, Len(s))

\* C3: insert(p, v) at any position p in [0, size] of any array grows size by
\* one, puts v at index p, keeps the elements before p and moves each element
\* from p on up by one; the iterator it returns denotes index p of the array.
C3_InsertContract ==
    [][last'.op = "Insert" =>
        LET s == vec[last'.v]
            t == vec'[last'.v]
        IN  /\ t.size = s.size + 1
            /\ Elems(heap', t) = InsertAt(Elems(heap, s), last'.i, last'.x)
            /\ last'.rblk = t.items
            /\ last'.ridx = last'.i]_vars

\* C4: erase(p) for p in [0, size) shrinks size by one and removes exactly the
\* element at p, the others keeping their order; erase(end) changes nothing
\* and returns end.
C4_EraseContract ==
    [][last'.op = "Erase" =>
        LET s == vec[last'.v]
            t == vec'[last'.v]
        IN  IF last'.i < s.size
            THEN /\ t.size = s.size - 1
                 /\ Elems(heap', t) = RemoveAt(Elems(heap, s), last'.i)
                 /\ fault' = "none"
            ELSE /\ vec' = vec /\ heap' = heap /\ fault' = fault
                 /\ last'.rblk = s.items /\ last'.ridx = s.size]_vars

\* C4 witness: an element that had successors was erased.
C4_Witness ==
    /\ last.op = "Erase"
    /\ last.i = 0
    /\ vec[last.v].size = 2

\* C5: after n PushBack calls on an empty array, size is n and the elements
\* read back are the values pushed, in call order.
C5_PushBackOrder ==
    log.push => /\ vec["a"].size = Len(log.vals)
              /\ Elems(heap, vec["a"]) = log.vals

\* C5 witness: five values were appended, across the reallocations to 1, 2, 4 and 8 slots.
C5_Witness ==
    /\ log.push
    /\ Len(log.vals) = 5
    /\ vec["a"].cap = 8

\* C6: resize(n) ends with size n and the elements [0, min(old size, n)) as
\* they were; n <= old size keeps capacity; old size < n <= capacity fills
\* [old size, n) with the default value and keeps capacity; n > capacity fills
\* [old size, n) with the default value and sets capacity to max(2 * old capacity, n).
C6_ResizeContract ==
    [][last'.op = "Resize" =>
        LET s == vec[last'.v]
            t == vec'[last'.v]
            n == last'.i
        IN  /\ t.size = n
            /\ \A i \in 0..Min(s.size, n) - 1 : Elem(heap', t, i) = Elem(heap, s, i)
            /\ n <= s.size => t.cap = s.cap
            /\ (s.size < n /\ n <= s.cap) =>
                  /\ \A i \in s.size..n - 1 : Elem(heap', t, i) = Default
                  /\ t.cap = s.cap
            /\ n > s.cap =>
                  /\ \A i \in s.size..n - 1 : Elem(heap', t, i) = Default
                  /\ t.cap = Max(2 * s.cap, n)]_vars

\* C10: at(i) throws out_of_range exactly when i >= size, and otherwise returns
\* the element at index i; a call that throws changes nothing of the array.
C10_AtContract ==
    [][last'.op = "At" =>
        LET s == vec[last'.v]
        IN  /\ last'.threw <=> last'.i >= s.size
            /\ ~last'.threw => last'.rblk = s.items /\ last'.ridx = last'.i
            /\ vec' = vec /\ heap' = heap /\ fault' = fault]_vars

\* C10 witness: at(size()) on a non-empty array threw.
C10_Witness ==
    /\ last.op = "At"
    /\ last.threw
    /\ last.i = vec[last.v].size
    /\ vec[last.v].size > 0

\* The object of the pair that is not n.
Other(n) == CHOOSE o \in Names : o # n

\* C7: a move construction or move assignment of an ArrayPtr leaves the source
\* with no block and the destination with the block the source held; no two
\* ArrayPtr objects ever hold the same block, and no block is deleted twice.
C7_MoveTransfersBlock ==
    [][/\ last'.op \in {"PtrMoveCtor", "PtrMoveAssign"} =>
            /\ ptr'[last'.o].raw = Null
            /\ ptr'[last'.v].raw = ptr[last'.o].raw
       /\ \A n \in Ptrs : \A o \in Ptrs \ {n} :
            (ptr'[n].alive /\ ptr'[o].alive /\ ptr'[n].raw # Null) => ptr'[n].raw # ptr'[o].raw
       /\ fault' # "double_delete"]_vars

\* C8: a copy-constructed array has the size and the elements of its source,
\* capacity equal to the source's size and a block of its own; while the two
\* are then mutated in place, a call on one leaves the size, the capacity and
\* the elements of the other as they were.
C8_CopyIndependent ==
    [][/\ last'.op = "CopyCtor" =>
            LET s == vec[last'.o]
                t == vec'[last'.v]
            IN  /\ t.size = s.size
                /\ Elems(heap', t) = Elems(heap, s)
                /\ t.cap = s.size
                /\ t.items = Null \/ t.items # s.items
                /\ vec'[last'.o] = s
                /\ Elems(heap', s) = Elems(heap, s)
       /\ (log.copy /\ last'.op \in Mutators) =>
            LET s == vec[Other(last'.v)]
                t == vec'[Other(last'.v)]
            IN  /\ t.size = s.size
                /\ t.cap = s.cap
                /\ Elems(heap', t) = Elems(heap, s)]_vars

\* C9: move-constructing b from a leaves a with size 0, capacity 0 and no
\* block, and b with the size, capacity, elements and block a had; the move
\* allocates and deallocates nothing.
C9_MoveConstruct ==
    [][last'.op = "MoveCtor" =>
        LET s == vec[last'.o]
        IN  /\ vec'[last'.o].size = 0
            /\ vec'[last'.o].cap = 0
            /\ vec'[last'.o].items = Null
            /\ vec'[last'.v] = s
            /\ Elems(heap', vec'[last'.v]) = Elems(heap, s)
            /\ heap' = heap
            /\ fault' = "none"]_vars

\* C11: Reserve(n) never lowers capacity and keeps size and the elements
\* [0, size); with n <= capacity it changes nothing (same size, capacity,
\* elements and block), with n > capacity the capacity becomes n, the block has
\* n slots and the elements are carried over in order.  SimpleVector(Reserve(n))
\* builds an array with size 0 and capacity >= n.
C11_ReserveContract ==
    [][(last'.op \in {"Reserve", "ReserveCtor"} /\ ~last'.threw) =>
        LET s == vec[last'.v]
            t == vec'[last'.v]
            n == last'.i
        IN  /\ t.cap >= s.cap
            /\ t.size = s.size
            /\ Elems(heap', t) = Elems(heap, s)
            /\ fault' = "none"
            /\ n <= s.cap => /\ t.cap = s.cap
                             /\ t.items = s.items
                             /\ heap' = heap
            /\ n > s.cap => /\ t.cap = n
                            /\ BlockSlots(heap', t) = n
            /\ last'.op = "ReserveCtor" => t.size = 0 /\ t.cap >= n]_vars

\* C11 witness: Reserve(3) has moved two elements into a new block of three
\* slots, the third of which nothing has written yet.
C11_Witness ==
    /\ last.op = "Reserve"
    /\ last.i = 3
    /\ vec["a"].items = 2
    /\ vec["a"].size = 2
    /\ vec["a"].cap = 3
    /\ BlockSlots(heap, vec["a"]) = 3
    /\ Elem(heap, vec["a"], 2) = Indet

\* The block of object s as the heap h holds it: its slots, <<>> when s holds none.
Block(h, s) == IF s.items \in Addr THEN h[s.items] ELSE [live |-> FALSE, data |-> <<>>]

\* C12: after a = b (copy assignment) a has the size and the elements of b, b
\* and its block are as they were, and a and b hold different blocks; a = a
\* leaves a's size, capacity and elements as they were and a's block allocated.
C12_CopyAssign ==
    [][(last'.op = "CopyAssign" /\ ~last'.threw) =>
        LET a == last'.v
            b == last'.o
        IN  /\ fault' = "none"
            /\ vec'[a].size = vec[b].size
            /\ Elems(heap', vec'[a]) = Elems(heap, vec[b])
            /\ a # b =>
                  /\ vec'[b] = vec[b]
                  /\ Block(heap', vec'[b]) = Block(heap, vec[b])
                  /\ vec'[a].items = Null \/ vec'[a].items # vec'[b].items
            /\ a = b =>
                  /\ vec'[a] = vec[a]
                  /\ Block(heap', vec'[a]) = Block(heap, vec[a])
                  /\ vec[a].items # Null => heap'[vec[a].items].live]_vars

\* C12 witness: a = b gave a a two-slot block of its own with the two elements
\* of b, whose capacity is 3.
C12_Witness ==
    /\ last.op = "CopyAssign"
    /\ last.v # last.o
    /\ vec[last.v].size = 2
    /\ vec[last.v].cap = 2
    /\ vec[last.o].cap = 3
    /\ vec[last.v].items # vec[last.o].items
    /\ Elems(heap, vec[last.v]) = Elems(heap, vec[last.o])

\* C13: when the allocation of the new block fails in Insert, PushBack, Reserve
\* or Resize, the exception leaves the call and the array's size, capacity,
\* block and elements, and the heap, are what they were before the call.
C13_AllocFailure ==
    [][(last'.op \in {"Insert", "PushBack", "Reserve", "Resize"} /\ last'.threw) =>
        /\ vec' = vec
        /\ heap' = heap
        /\ fault' = fault]_vars

\* C13 witness: an Insert into a full two-element array threw std::bad_alloc.
C13_Witness ==
    /\ last.op = "Insert"
    /\ last.threw
    /\ vec["a"].size = 2
    /\ vec["a"].cap = 2

\* Sequence l precedes sequence r lexicographically: they agree on their first
\* k elements and then l has ended and r has not, or l's next element is the smaller.
LexLess(l, r) ==
    \E k \in 0..Min(Len(l), Len(r)) :
        /\ \A j \in 1..k : l[j] = r[j]
        /\ \/ k = Len(l) /\ k < Len(r)
           \/ k < Len(l) /\ k < Len(r) /\ l[k + 1] < r[k + 1]

\* C14: a == b iff the two arrays have the same size and equal elements at
\* every index, a < b iff a precedes b lexicographically, a != b iff not a == b,
\* a > b iff b < a, a <= b iff not b < a, a >= b iff not a < b; the answers
\* depend on the elements [0, size) only, whatever the capacities.
C14_Comparisons ==
    last.op = "Compare" =>
        LET l == Elems(heap, vec[last.v])
            r == Elems(heap, vec[last.o])
        IN  /\ fault = "none"
            /\ last.eq <=> (Len(l) = Len(r) /\ \A j \in 1..Len(l) : l[j] = r[j])
            /\ last.lt <=> LexLess(l, r)
            /\ last.ne <=> ~last.eq
            /\ last.gt <=> LexLess(r, l)
            /\ last.le <=> ~LexLess(r, l)
            /\ last.ge <=> ~LexLess(l, r)

\* C14 witness: a two-element array compared less than a three-element array
\* of another capacity that it is a prefix of.
C14_Witness ==
    /\ last.op = "Compare"
    /\ last.v # last.o
    /\ vec[last.v].size = 2
    /\ vec[last.o].size = 3
    /\ vec[last.v].cap = 3
    /\ vec[last.o].cap = 3
    /\ SubSeq(Elems(heap, vec[last.o]), 1, 2) = Elems(heap, vec[last.v])
    /\ last.lt /\ ~last.eq

\* C15: Insert and PushBack called with size == capacity reallocate and set
\* capacity to max(size + 1, 2 * capacity) of the values before the call;
\* called with size < capacity they leave capacity and the block in place.
C15_InsertGrowth ==
    [][(last'.op \in {"Insert", "PushBack"} /\ ~last'.threw) =>
        LET s == vec[last'.v]
            t == vec'[last'.v]
        IN  IF s.size = s.cap
            THEN /\ t.cap = Max(s.size + 1, 2 * s.cap)
                 /\ BlockSlots(heap', t) = t.cap
                 /\ t.items # s.items
                 /\ fault' = "none"
            ELSE /\ s.size < s.cap
                 /\ t.cap = s.cap
                 /\ t.items = s.items
                 /\ BlockSlots(heap', t) = BlockSlots(heap, s)]_vars

\* C15 witness: an Insert into a full two-element array left three elements in
\* a block of four slots, the last of them not written yet.
C15_Witness ==
    /\ last.op = "Insert"
    /\ last.i = 1
    /\ vec["a"].size = 3
    /\ vec["a"].cap = 4
    /\ vec["a"].items = 2
    /\ BlockSlots(heap, vec["a"]) = 4
    /\ Elem(heap, vec["a"], 3) = Indet

\* C16: for m <= n, Resize(n); Resize(m); Resize(n) on any array accesses no
\* slot outside the block and ends with size n, the elements
\* [0, min(m, old size)) as they were and every element of [m, n) equal to the
\* default value.
C16_ResizeThrice ==
    [][last'.op = "ResizeThrice" =>
        LET s == vec[last'.v]
            t == vec'[last'.v]
            n == last'.i
            m == last'.x
        IN  /\ fault' = "none"
            /\ t.size = n
            /\ \A i \in 0..Min(m, s.size) - 1 : Elem(heap', t, i) = Elem(heap, s, i)
            /\ \A i \in m..n - 1 : Elem(heap', t, i) = Default]_vars

\* C17: Erase, PopBack and Clear never reallocate: capacity, the block pointer
\* and the allocated blocks are as before.  PopBack lowers size by one on a
\* non-empty array and does nothing on an empty one; Clear sets size to 0;
\* neither writes a slot.
C17_ShrinkersKeepBlock ==
    [][last'.op \in {"Erase", "PopBack", "Clear"} =>
        LET s == vec[last'.v]
            t == vec'[last'.v]
        IN  /\ t.cap = s.cap
            /\ t.items = s.items
            /\ \A k \in Addr : /\ heap'[k].live = heap[k].live
                               /\ Len(heap'[k].data) = Len(heap[k].data)
            /\ last'.op = "PopBack" =>
                  /\ t.size = IF s.size > 0 THEN s.size - 1 ELSE 0
                  /\ heap' = heap
                  /\ \A i \in 0..t.size - 1 : Elem(heap', t, i) = Elem(heap, s, i)
            /\ last'.op = "Clear" =>
                  /\ t.size = 0
                  /\ heap' = heap]_vars

\* C17 witness: PopBack took the third element off an array of capacity 4.
C17_Witness ==
    /\ last.op = "PopBack"
    /\ vec["a"].size = 2
    /\ vec["a"].cap = 4
    /\ BlockSlots(heap, vec["a"]) = 4
    /\ Elem(heap, vec["a"], 2) # Indet

\* C18: after N >= 1 PushBack calls on an initially empty array, the number of
\* elements carried into new blocks by all the reallocations together is less
\* than 2N.
C18_AmortizedMoves ==
    (log.push /\ Len(log.vals) >= 1) => log.moves < 2 * Len(log.vals)

\* C18 witness: the fifth PushBack has carried four elements into the 8-slot
\* block, seven moves in all.
C18_Witness ==
    /\ log.push
    /\ Len(log.vals) = 5
    /\ log.moves = 7
    /\ BlockSlots(heap, vec["a"]) = 8

\* C19: a = std::move(b) leaves b as it was: size, capacity, elements and
\* block.  When a and b differ in content, a ends with b's elements in a newly
\* allocated block of b.size slots and capacity b.size; when they are
\* content-equal, nothing of a changes, its capacity included.
C19_MoveAssignCopies ==
    [][(last'.op = "MoveAssign" /\ ~last'.threw) =>
        LET a == last'.v
            b == last'.o
            s == vec[a]
            o == vec[b]
            t == vec'[a]
        IN  /\ fault' = "none"
            /\ a # b => /\ vec'[b] = o
                        /\ Block(heap', vec'[b]) = Block(heap, o)
            /\ a = b => vec' = vec /\ heap' = heap
            /\ Elems(heap, s) # Elems(heap, o) =>
                  /\ t.size = o.size
                  /\ t.cap = o.size
                  /\ BlockSlots(heap', t) = o.size
                  /\ Elems(heap', t) = Elems(heap, o)
                  /\ o.size > 0 => t.items \in Addr \ {s.items, o.items}
            /\ Elems(heap, s) = Elems(heap, o) =>
                  /\ t = s
                  /\ Block(heap', t) = Block(heap, s)]_vars

\* C19 witness: after a = std::move(b), b still has its two elements in its
\* block of capacity 3, and a has them in a two-slot block of its own.
C19_Witness ==
    /\ last.op = "MoveAssign"
    /\ last.v # last.o
    /\ vec[last.o].size = 2
    /\ vec[last.o].cap = 3
    /\ vec[last.o].items # Null
    /\ vec[last.v].size = 2
    /\ vec[last.v].cap = 2
    /\ vec[last.v].items # vec[last.o].items
    /\ Elems(heap, vec[last.v]) = Elems(heap, vec[last.o])

====
